---- MODULE Spec2Model ----
(***************************************************************************)
(* Statement Scanner: the file-selection widget (FileUpload), the          *)
(* analysis run of App (handleAnalyze and the handlers around it), the     *)
(* extraction client (extractTransactions) and the table serializer        *)
(* (generateCSV, copyToClipboard).                                         *)
(*                                                                         *)
(* Text is a sequence of one-character strings.  Amounts are counted in    *)
(* hundredths, calendar times in days since 1970-01-01 (getTime()/864e5).  *)
(***************************************************************************)
EXTENDS Integers, Sequences, FiniteSets, TLC

VARIABLES
    selectedFiles,   \* FileUpload: useState<File[]>
    files,           \* App: useState<File[]>
    status,          \* App: useState<FileStatus>
    transactions,    \* App: useState<Transaction[]>
    error,           \* App: useState<string | null>
    copied,          \* App: useState(false)
    processedCount,  \* App: useState(0)
    tasks,           \* per-file async callbacks of files.map still awaiting I/O
    join,            \* the Promise.all a handleAnalyze call is awaiting
    runCount,        \* number of handleAnalyze calls made so far
    started,         \* number of per-file operations started so far
    run,             \* the latest handleAnalyze call: its number of files,
                     \* whether one of its per-file promises rejected, and the
                     \* status set when its Promise.all settled
    results,         \* what the per-file callbacks of the pending or displayed
                     \* run returned, by position of their file in `files`
    clipboard,       \* text held by navigator.clipboard
    timers,          \* pending setTimeout(() => setCopied(false), 2000)
    response,        \* extractTransactions under test: the capability's reply
    extracted        \* extractTransactions under test: how the call settled

vars == <<selectedFiles, files, status, transactions, error, copied,
          processedCount, tasks, join, runCount, started, run, results,
          clipboard, timers, response, extracted>>

appVars == <<files, status, transactions, error, copied, processedCount>>

-----------------------------------------------------------------------------
(* Bounds of the model *)

MaxLen == 3      \* longest description tried on generateCSV
MaxTx == 2       \* most rows tried on generateCSV
MaxItems == 2    \* most items in one capability reply
MaxFiles == 2    \* most files in the submission set
MaxBatch == 2    \* most files in one drop / picker selection
MaxOps == 4      \* most per-file operations started in one behaviour
MaxTimers == 1   \* most pending "copied" timers

-----------------------------------------------------------------------------
(* Text *)

TAB == "\t"
LF == "\n"
CR == "\r"
SP == " "

\* /[\t\n\r]/
CtlChars == {TAB, LF, CR}

\* the characters String.prototype.trim strips, among those of the alphabet
WhiteSpace == {SP, TAB, LF, CR}

Alphabet == {"a", "b", SP, TAB, LF, CR}

Texts(n) == UNION {[1..k -> Alphabet] : k \in 0..n}

RECURSIVE Concat(_)
Concat(ss) == IF ss = <<>> THEN <<>> ELSE Head(ss) \o Concat(Tail(ss))

\* Array.prototype.join
RECURSIVE JoinWith(_, _)
JoinWith(ss, sep) ==
    IF ss = <<>> THEN <<>>
    ELSE IF Len(ss) = 1 THEN ss[1]
    ELSE ss[1] \o <<sep>> \o JoinWith(Tail(ss), sep)

\* String.prototype.split on a one-character separator
RECURSIVE SplitOn(_, _)
SplitOn(s, sep) ==
    IF \A i \in 1..Len(s) : s[i] # sep THEN <<s>>
    ELSE LET k == CHOOSE i \in 1..Len(s) :
                      s[i] = sep /\ \A j \in 1..(i-1) : s[j] # sep
         IN <<SubSeq(s, 1, k-1)>> \o SplitOn(SubSeq(s, k+1, Len(s)), sep)

DigitChars == <<"0", "1", "2", "3", "4", "5", "6", "7", "8", "9">>

RECURSIVE NatToText(_)
NatToText(n) ==
    IF n < 10 THEN <<DigitChars[n+1]>>
    ELSE NatToText(n \div 10) \o <<DigitChars[(n % 10) + 1]>>

\* Number.prototype.toString of an amount given in hundredths
NumberToString(c) ==
    LET a == IF c < 0 THEN -c ELSE c
        whole == a \div 100
        frac == a % 100
        fracText == IF frac = 0 THEN <<>>
                    ELSE IF frac % 10 = 0 THEN <<".", DigitChars[(frac \div 10) + 1]>>
                    ELSE <<".", DigitChars[(frac \div 10) + 1], DigitChars[(frac % 10) + 1]>>
    IN (IF c < 0 THEN <<"-">> ELSE <<>>) \o NatToText(whole) \o fracText

-----------------------------------------------------------------------------
(* Transaction records.  `present` lists the properties the object carries; *)
(* a property outside it reads as undefined.                                *)

Fields == {"date", "description", "category", "amount"}

Tx(d, desc, cat, amt) ==
    [date |-> d, description |-> desc, category |-> cat, amount |-> amt,
     present |-> Fields]

Lacking(t, fs) ==
    [date |-> IF "date" \in fs THEN <<>> ELSE t.date,
     description |-> IF "description" \in fs THEN <<>> ELSE t.description,
     category |-> IF "category" \in fs THEN <<>> ELSE t.category,
     amount |-> IF "amount" \in fs THEN 0 ELSE t.amount,
     present |-> t.present \ fs]

-----------------------------------------------------------------------------
(* generateCSV *)

\* str.replace(/[\t\n\r]+/g, ' ')
RECURSIVE ReplaceCtlRuns(_)
ReplaceCtlRuns(s) ==
    IF s = <<>> THEN <<>>
    ELSE IF Head(s) \in CtlChars
         THEN LET rest == Tail(s)
                  n == IF \A i \in 1..Len(rest) : rest[i] \in CtlChars
                       THEN Len(rest)
                       ELSE (CHOOSE i \in 1..Len(rest) :
                                rest[i] \notin CtlChars
                                /\ \A j \in 1..(i-1) : rest[j] \in CtlChars) - 1
              IN <<SP>> \o ReplaceCtlRuns(SubSeq(rest, n+1, Len(rest)))
         ELSE <<Head(s)>> \o ReplaceCtlRuns(Tail(s))

RECURSIVE TrimStart(_)
TrimStart(s) ==
    IF s # <<>> /\ Head(s) \in WhiteSpace THEN TrimStart(Tail(s)) ELSE s

RECURSIVE TrimEnd(_)
TrimEnd(s) ==
    IF s # <<>> /\ s[Len(s)] \in WhiteSpace
    THEN TrimEnd(SubSeq(s, 1, Len(s)-1)) ELSE s

\* String.prototype.trim
Trim(s) == TrimEnd(TrimStart(s))

\* a clean whose pattern lacks the `+`: every control character becomes a
\* space of its own
CleanEachChar(str) ==
    Trim([i \in 1..Len(str) |-> IF str[i] \in CtlChars THEN SP ELSE str[i]])

\* const clean = (str) => str.replace(/[\t\n\r]+/g, ' ').trim()
Clean(str) == Trim(ReplaceCtlRuns(str))

\* t.amount.toString(), clean(t.description), clean(t.category) throw a
\* TypeError on undefined
RowThrows(t) == {"description", "category", "amount"} \ t.present # {}

\* [t.date, clean(t.description), clean(t.category), t.amount.toString()].join('\t')
\* (join writes undefined as the empty string)
CsvRow(t) ==
    JoinWith(<<t.date, Clean(t.description), Clean(t.category),
               NumberToString(t.amount)>>, TAB)

CsvHeaders == <<<<"D","a","t","e">>,
                <<"D","e","s","c","r","i","p","t","i","o","n">>,
                <<"C","a","t","e","g","o","r","y">>,
                <<"A","m","o","u","n","t">>>>

GenerateCSVThrows(txs) == \E i \in 1..Len(txs) : RowThrows(txs[i])

\* generateCSV without its first line, the early return on an empty array
GenerateCSVNoEarlyReturn(txs) ==
    JoinWith(<<JoinWith(CsvHeaders, TAB)>>
             \o [i \in 1..Len(txs) |-> CsvRow(txs[i])], LF)

GenerateCSV(txs) ==
    IF Len(txs) = 0 THEN <<>>
    ELSE JoinWith(<<JoinWith(CsvHeaders, TAB)>>
                  \o [i \in 1..Len(txs) |-> CsvRow(txs[i])], LF)

-----------------------------------------------------------------------------
(* new Date(a.date).getTime() *)

NaN == [nan |-> TRUE, t |-> 0]
Time(d) == [nan |-> FALSE, t |-> d]

IsDigit(c) == \E d \in 1..10 : DigitChars[d] = c
DigitVal(c) == (CHOOSE d \in 1..10 : DigitChars[d] = c) - 1

IsLeap(y) == (y % 4 = 0 /\ y % 100 # 0) \/ y % 400 = 0

DaysInMonth(y, m) ==
    IF m = 2 THEN (IF IsLeap(y) THEN 29 ELSE 28)
    ELSE IF m \in {4, 6, 9, 11} THEN 30 ELSE 31

\* days from 1970-01-01 to the civil date y-m-d
DaysFromCivil(y, m, d) ==
    LET yy == IF m <= 2 THEN y - 1 ELSE y
        era == yy \div 400
        yoe == yy - era * 400
        mp == IF m > 2 THEN m - 3 ELSE m + 9
        doy == (153 * mp + 2) \div 5 + d - 1
        doe == yoe * 365 + yoe \div 4 - yoe \div 100 + doy
    IN era * 146097 + doe - 719468

\* Date.parse of the date-only form YYYY-MM-DD; any other text of the model's
\* inputs is one no engine parses, and gives NaN
DateParse(s) ==
    IF /\ Len(s) = 10
       /\ s[5] = "-" /\ s[8] = "-"
       /\ \A i \in {1, 2, 3, 4, 6, 7, 9, 10} : IsDigit(s[i])
    THEN LET y == DigitVal(s[1]) * 1000 + DigitVal(s[2]) * 100
                  + DigitVal(s[3]) * 10 + DigitVal(s[4])
             m == DigitVal(s[6]) * 10 + DigitVal(s[7])
             d == DigitVal(s[9]) * 10 + DigitVal(s[10])
         IN IF m \in 1..12 /\ d \in 1..DaysInMonth(y, m)
            THEN Time(DaysFromCivil(y, m, d)) ELSE NaN
    ELSE NaN

\* new Date(t.date).getTime(); new Date(undefined) is an invalid date
GetTime(t) == IF "date" \in t.present THEN DateParse(t.date) ELSE NaN

\* the comparator's result on two getTime() values: their difference, which
\* sort reads as +0 when it is NaN
Difference(ta, tb) == IF ta.nan \/ tb.nan THEN 0 ELSE ta.t - tb.t

\* (a, b) => new Date(a.date).getTime() - new Date(b.date).getTime()
CompareByDate(a, b) == Difference(GetTime(a), GetTime(b))

Sign(n) == IF n < 0 THEN -1 ELSE IF n > 0 THEN 1 ELSE 0

\* whether the comparator is a consistent comparison function for the
\* elements of s (ECMA-262, Array.prototype.sort)
ConsistentComparator(s) ==
    \A ta, tb, tc \in {GetTime(s[i]) : i \in 1..Len(s)} :
        /\ Sign(Difference(ta, tb)) = -Sign(Difference(tb, ta))
        /\ Difference(ta, tb) = 0 =>
               Sign(Difference(ta, tc)) = Sign(Difference(tb, tc))
        /\ Difference(ta, tb) < 0 /\ Difference(tb, tc) < 0 =>
               Difference(ta, tc) < 0

\* x placed behind the last element that does not compare greater than it
InsertStable(sorted, x) ==
    LET before == {i \in 1..Len(sorted) : CompareByDate(sorted[i], x) <= 0}
        k == IF before = {} THEN 0
             ELSE CHOOSE i \in before : \A j \in before : j <= i
    IN SubSeq(sorted, 1, k) \o <<x>> \o SubSeq(sorted, k+1, Len(sorted))

RECURSIVE StableSort(_)
StableSort(s) ==
    IF s = <<>> THEN <<>>
    ELSE InsertStable(StableSort(SubSeq(s, 1, Len(s)-1)), s[Len(s)])

Reorderings(s) ==
    {[i \in 1..Len(s) |-> s[p[i]]] : p \in Permutations(1..Len(s))}

\* allTransactions.sort(comparator): the stable ascending order when the
\* comparator is consistent, an implementation-defined order otherwise
SortOutcomes(s) ==
    IF ConsistentComparator(s) THEN {StableSort(s)} ELSE Reorderings(s)

-----------------------------------------------------------------------------
(* extractTransactions *)

NoResponseMessage == "No response received from Gemini."
SyntaxErrorMessage == "Unexpected token in JSON"
TypeErrorMessage == "Cannot read properties of null (reading 'transactions')"

Thrown(msg) == [ok |-> FALSE, value |-> <<>>, hasMessage |-> TRUE, message |-> msg]
ThrownEvent == [ok |-> FALSE, value |-> <<>>, hasMessage |-> FALSE, message |-> ""]
Returned(v) == [ok |-> TRUE, value |-> v, hasMessage |-> FALSE, message |-> ""]

\* What ai.models.generateContent settles with.  kind: "rejected" (the
\* request fails with `message`), "no_text" (response.text undefined),
\* "empty_text", "malformed" (text JSON.parse rejects), "json_null",
\* "json_number", "json_object" (text that parses to such a value).
\* tx: the object's `transactions` property: "absent", "null" or "array"
\* (with `items`).
Reply(kind, tx, items, msg) ==
    [kind |-> kind, tx |-> tx, items |-> items, message |-> msg]

RequestFailed(msg) == Reply("rejected", "absent", <<>>, msg)
NoText == Reply("no_text", "absent", <<>>, "")
EmptyText == Reply("empty_text", "absent", <<>>, "")
Malformed == Reply("malformed", "absent", <<>>, "")
JsonNull == Reply("json_null", "absent", <<>>, "")
JsonNumber == Reply("json_number", "absent", <<>>, "")
JsonObjectWithout == Reply("json_object", "absent", <<>>, "")
JsonObjectNullTx == Reply("json_object", "null", <<>>, "")
JsonTransactions(items) == Reply("json_object", "array", items, "")

ExtractTransactions(r) ==
    IF r.kind = "rejected" THEN Thrown(r.message)
    ELSE IF r.kind \in {"no_text", "empty_text"} THEN Thrown(NoResponseMessage)
    ELSE IF r.kind = "malformed" THEN Thrown(SyntaxErrorMessage)
    ELSE IF r.kind = "json_null" THEN Thrown(TypeErrorMessage)
    ELSE IF r.kind = "json_object" /\ r.tx = "array" THEN Returned(r.items)
    ELSE Returned(<<>>)

-----------------------------------------------------------------------------
(* Inputs *)

File(name, size, type) == [name |-> name, size |-> size, type |-> type]

\* what the user can drop: files that share a name or a size, and a file of
\* a type outside the allow-list
FileUniverse ==
    {File("a.pdf", 1, "application/pdf"), File("a.pdf", 2, "application/pdf"),
     File("b.png", 1, "image/png"), File("notes.txt", 1, "text/plain")}

\* a FileList: one drop or one picker selection
Batches == UNION {[1..k -> FileUniverse] : k \in 1..MaxBatch}

D0110 == <<"2", "0", "2", "4", "-", "0", "1", "-", "1", "0">>
D0305 == <<"2", "0", "2", "4", "-", "0", "3", "-", "0", "5">>
DNone == <<"n", "/", "a">>

Coffee == Tx(D0305, <<"C", "a", "f", "e">>, <<"F", "u", "n">>, -450)
Salary == Tx(D0110, <<"P", "a", "y">>, <<"J", "o", "b">>, 250000)
Rent == Tx(D0305, <<"R", "e", "n", "t", TAB, "D", "u", "e", LF>>,
           <<"B", "i", "l", "l">>, -120000)
Undated == Tx(DNone, <<"F", "e", "e">>, <<"B", "a", "n", "k">>, -100)
NoAmount == Lacking(Coffee, {"amount"})

\* the replies the capability gives to the requests of a run
RunReplies ==
    {NoText, JsonObjectWithout}
    \cup {JsonTransactions(items) :
            items \in {<<Rent, Salary>>, <<Coffee, Undated>>, <<NoAmount>>}}

\* items with every combination of properties missing
PartialItems == {Lacking(Coffee, fs) : fs \in SUBSET Fields}

\* the replies tried on a single extractTransactions call
CallReplies ==
    {RequestFailed("Failed to fetch"), RequestFailed(""), NoText, EmptyText,
     Malformed, JsonNull, JsonNumber, JsonObjectWithout, JsonObjectNullTx}
    \cup {JsonTransactions(items) :
            items \in UNION {[1..k -> PartialItems] : k \in 0..MaxItems}}

\* the records tried on generateCSV: every description up to len, with dates
\* and categories that do and do not hold separators
DTabbed == <<"1", TAB, "2">>

CsvRecords(len) ==
    {Tx(d, desc, cat, amt) :
        d \in {D0110, DTabbed},
        desc \in Texts(len),
        cat \in {<<"a">>, <<TAB, "a", CR, LF, "b", SP>>},
        amt \in {-450, 250000}}

\* a sequence tried on generateCSV: n records, the k-th being r and the
\* others Rent
CsvInput(n, k, r) == [i \in 1..n |-> IF i = k THEN r ELSE Rent]

-----------------------------------------------------------------------------
(* App and FileUpload state *)

IDLE == "IDLE"
PROCESSING == "PROCESSING"
SUCCESS == "SUCCESS"
ERROR == "ERROR"

Null == "<null>"

DefaultMessage ==
    "Failed to analyze one or more documents. Please check the files and try again."

NoJoin == [run |-> 0, n |-> 0, values |-> <<>>, done |-> {}]

NoRun == [n |-> 0, failed |-> FALSE, final |-> IDLE]

NotCalled == [ok |-> FALSE, value |-> <<>>, hasMessage |-> FALSE,
              message |-> "<not called>"]

App == [files |-> files, status |-> status, transactions |-> transactions,
        error |-> error, processedCount |-> processedCount]

SetApp(a) ==
    /\ files' = a.files
    /\ status' = a.status
    /\ transactions' = a.transactions
    /\ error' = a.error
    /\ processedCount' = a.processedCount

Init ==
    /\ selectedFiles = <<>>
    /\ files = <<>>
    /\ status = IDLE
    /\ transactions = <<>>
    /\ error = Null
    /\ copied = FALSE
    /\ processedCount = 0
    /\ tasks = {}
    /\ join = NoJoin
    /\ runCount = 0
    /\ started = 0
    /\ run = NoRun
    /\ results = <<>>
    /\ clipboard = <<>>
    /\ timers = 0
    /\ response = NoText
    /\ extracted = NotCalled

\* App.handleFilesSelect
HandleFilesSelect(a, sel) ==
    IF a.status # PROCESSING /\ Len(sel) = 0
    THEN [a EXCEPT !.files = sel, !.status = IDLE, !.transactions = <<>>,
                   !.error = Null, !.processedCount = 0]
    ELSE [a EXCEPT !.files = sel]

\* FileUpload's effect on [selectedFiles, onFilesSelect]: it runs after every
\* render in which the selection or the status (the callback's dependency)
\* changed; FileUpload is not rendered while status is SUCCESS
NotifyParent(a, sel) ==
    IF a.status = SUCCESS THEN a ELSE HandleFilesSelect(a, sel)

\* a FileUpload rendered without the `disabled` prop
NeverDisabled == FALSE

\* FileUpload's `disabled` prop
Disabled == status = PROCESSING

\* FileUpload is rendered
Mounted == status # SUCCESS

ValidTypes == {"image/jpeg", "image/png", "image/webp", "image/heic",
               "application/pdf"}

\* selectedFiles.some(f => f.name === file.name && f.size === file.size)
IsDuplicate(sel, file) ==
    \E i \in 1..Len(sel) : sel[i].name = file.name /\ sel[i].size = file.size

\* a forEach that skips the validTypes test
NewFilesOfAnyType(sel, batch) ==
    SelectSeq(batch, LAMBDA f : ~IsDuplicate(sel, f))

\* the newFiles array built by handleFiles' forEach
NewFiles(sel, batch) ==
    SelectSeq(batch, LAMBDA f : f.type \in ValidTypes /\ ~IsDuplicate(sel, f))

\* FileUpload.handleFiles (through handleDrop or handleChange)
HandleFiles(batch) ==
    /\ Mounted
    /\ IF Disabled \/ NewFiles(selectedFiles, batch) = <<>>
       THEN UNCHANGED <<selectedFiles, files, status, transactions, error,
                        processedCount>>
       ELSE /\ Len(selectedFiles) + Len(NewFiles(selectedFiles, batch)) <= MaxFiles
            /\ selectedFiles' = selectedFiles \o NewFiles(selectedFiles, batch)
            /\ SetApp(NotifyParent(App, selectedFiles'))
    /\ UNCHANGED <<copied, tasks, join, runCount, started, run, results, clipboard, timers, response,
                   extracted>>

\* FileUpload.removeFile; the button is rendered only when not disabled
RemoveFile(indexToRemove) ==
    /\ Mounted /\ ~Disabled
    /\ indexToRemove \in 1..Len(selectedFiles)
    /\ selectedFiles' = [i \in 1..(Len(selectedFiles) - 1) |->
                            IF i < indexToRemove THEN selectedFiles[i]
                            ELSE selectedFiles[i + 1]]
    /\ SetApp(NotifyParent(App, selectedFiles'))
    /\ UNCHANGED <<copied, tasks, join, runCount, started, run, results, clipboard, timers, response,
                   extracted>>

\* FileUpload.clearAll; the button is rendered when files are selected
ClearAll ==
    /\ Mounted
    /\ Len(selectedFiles) > 0
    /\ IF Disabled
       THEN UNCHANGED <<selectedFiles, files, status, transactions, error,
                        processedCount>>
       ELSE /\ selectedFiles' = <<>>
            /\ SetApp(NotifyParent(App, selectedFiles'))
    /\ UNCHANGED <<copied, tasks, join, runCount, started, run, results, clipboard, timers, response,
                   extracted>>

-----------------------------------------------------------------------------
(* App.handleAnalyze *)

\* err.message || "Failed to analyze ..."
MessageShown(e) ==
    IF e.hasMessage /\ e.message # "" THEN e.message ELSE DefaultMessage

\* the statements of handleAnalyze before the try block
StartRun(a) ==
    [a EXCEPT !.status = PROCESSING, !.processedCount = 0, !.error = Null,
              !.transactions = <<>>]

\* a catch block that sets the message and leaves the status alone
OnJoinRejectedStatusKept(a, e) == [a EXCEPT !.error = MessageShown(e)]

\* a catch block that returns to IDLE
OnJoinRejectedToIdle(a, e) ==
    [a EXCEPT !.error = MessageShown(e), !.status = IDLE]

\* the catch block
OnJoinRejected(a, e) ==
    [a EXCEPT !.error = MessageShown(e), !.status = ERROR]

\* results[0] in place of results.flat()
FlatFirstOnly(arrays) == IF arrays = <<>> THEN <<>> ELSE Head(arrays)

\* results.flat()
Flat(arrays) == Concat(arrays)

\* the statements after the await, without setStatus(SUCCESS)
OnJoinResolvedStatusKept(a, sorted) == [a EXCEPT !.transactions = sorted]

\* the statements after `await Promise.all(promises)`, given the sorted array
OnJoinResolved(a, sorted) ==
    [a EXCEPT !.transactions = sorted, !.status = SUCCESS]

\* setProcessedCount((prev) => prev + 1)
CountOne(a) == [a EXCEPT !.processedCount = @ + 1]

\* a Promise.all that looks for the last element before counting this one
AllFulfilledBefore(j, idx) == j.done = 1..j.n

\* Promise.all: whether the promise settled for element idx is the last one
AllFulfilled(j, idx) == j.done \cup {idx} = 1..j.n

\* an Analyze button rendered whatever the status
CanAnalyzeInAnyStatus == Len(files) > 0

\* the Analyze button (files selected, status neither PROCESSING nor SUCCESS)
\* or the Try Again link (status ERROR)
CanAnalyze ==
    \/ Len(files) > 0 /\ status \notin {PROCESSING, SUCCESS}
    \/ status = ERROR

HandleAnalyze ==
    /\ CanAnalyze
    /\ Len(files) # 0
    /\ started + Len(files) <= MaxOps
    /\ LET r == runCount + 1
       IN /\ tasks' = tasks \cup
                 {[run |-> r, idx |-> i, stage |-> "reading"] : i \in 1..Len(files)}
          /\ join' = [run |-> r, n |-> Len(files),
                      values |-> [i \in 1..Len(files) |-> <<>>], done |-> {}]
          /\ runCount' = r
          /\ started' = started + Len(files)
          /\ run' = [n |-> Len(files), failed |-> FALSE, final |-> PROCESSING]
          /\ results' = [i \in 1..Len(files) |-> <<>>]
    /\ SetApp(NotifyParent(StartRun(App), selectedFiles))
    /\ UNCHANGED <<selectedFiles, copied, clipboard, timers, response, extracted>>

\* a rejection that also aborts the other per-file operations of its run
TaskRejectsAbortingRun(t, e) ==
    /\ tasks' = {u \in tasks : u.run # t.run}
    /\ IF join.run = t.run
       THEN /\ join' = NoJoin
            /\ SetApp(NotifyParent(OnJoinRejected(App, e), selectedFiles))
            /\ run' = [run EXCEPT !.failed = TRUE, !.final = status']
            /\ results' = <<>>
       ELSE /\ run' = IF t.run = runCount THEN [run EXCEPT !.failed = TRUE]
                      ELSE run
            /\ UNCHANGED <<join, files, status, transactions, error,
                           processedCount, results>>
    /\ UNCHANGED <<selectedFiles, runCount, started, copied, clipboard,
                   timers, response, extracted>>

\* a per-file promise rejects with e: Promise.all rejects at once if it is
\* still pending, and the catch block of its handleAnalyze runs
TaskRejects(t, e) ==
    /\ tasks' = tasks \ {t}
    /\ IF join.run = t.run
       THEN /\ join' = NoJoin
            /\ SetApp(NotifyParent(OnJoinRejected(App, e), selectedFiles))
            /\ run' = [run EXCEPT !.failed = TRUE, !.final = status']
            /\ results' = <<>>
       ELSE /\ run' = IF t.run = runCount THEN [run EXCEPT !.failed = TRUE]
                      ELSE run
            /\ UNCHANGED <<join, files, status, transactions, error,
                           processedCount, results>>
    /\ UNCHANGED <<selectedFiles, runCount, started, copied, clipboard,
                   timers, response, extracted>>

\* a Promise.all that keeps the values in the order they arrive
RecordedInArrivalOrder(j, idx, value) ==
    [j.values EXCEPT ![Cardinality(j.done) + 1] = value]

\* Promise.all keeps the value of element idx at index idx of its result
Recorded(j, idx, value) == [j.values EXCEPT ![idx] = value]

\* a per-file callback returns value after counting itself: Promise.all
\* records it, and once every element is fulfilled handleAnalyze resumes
TaskFulfils(t, value) ==
    /\ tasks' = tasks \ {t}
    /\ IF join.run = t.run
       THEN IF AllFulfilled(join, t.idx)
            THEN \E sorted \in SortOutcomes(
                        Flat(Recorded(join, t.idx, value))) :
                    /\ join' = NoJoin
                    /\ SetApp(OnJoinResolved(CountOne(App), sorted))
                    /\ selectedFiles' = <<>>
                    /\ run' = [run EXCEPT !.final = status']
                    /\ results' = [results EXCEPT ![t.idx] = value]
            ELSE /\ join' = [join EXCEPT !.values = Recorded(join, t.idx, value),
                                         !.done = @ \cup {t.idx}]
                 /\ SetApp(CountOne(App))
                 /\ results' = [results EXCEPT ![t.idx] = value]
                 /\ UNCHANGED <<selectedFiles, run>>
       ELSE /\ SetApp(NotifyParent(CountOne(App), selectedFiles))
            /\ UNCHANGED <<selectedFiles, join, run, results>>
    /\ UNCHANGED <<runCount, started, copied, clipboard, timers, response,
                   extracted>>

\* convertFileToBase64: reader.onload; the callback goes on to call
\* extractTransactions, which issues the request
ReadLoaded(t) ==
    /\ t \in tasks /\ t.stage = "reading"
    /\ tasks' = (tasks \ {t}) \cup {[t EXCEPT !.stage = "extracting"]}
    /\ UNCHANGED <<selectedFiles, files, status, transactions, error, copied,
                   processedCount, join, runCount, started, run, results, clipboard, timers, response,
                   extracted>>

\* convertFileToBase64: reader.onerror rejects with the event
ReadFailed(t) ==
    /\ t \in tasks /\ t.stage = "reading"
    /\ TaskRejects(t, ThrownEvent)

\* the request of extractTransactions settles with reply
ExtractSettled(t, reply) ==
    /\ t \in tasks /\ t.stage = "extracting"
    /\ IF ExtractTransactions(reply).ok
       THEN TaskFulfils(t, ExtractTransactions(reply).value)
       ELSE TaskRejects(t, ExtractTransactions(reply))

\* App.handleReset: the New Scan button, rendered while status is SUCCESS;
\* FileUpload is then rendered anew, with an empty selection
HandleReset ==
    /\ status = SUCCESS
    /\ selectedFiles' = <<>>
    /\ SetApp(NotifyParent([App EXCEPT !.files = <<>>, !.transactions = <<>>,
                                       !.status = IDLE, !.error = Null,
                                       !.processedCount = 0], selectedFiles'))
    /\ results' = <<>>
    /\ UNCHANGED <<copied, tasks, join, runCount, started, run, clipboard,
                   timers, response, extracted>>

-----------------------------------------------------------------------------
(* App.handleCopyCSV *)

\* a copyToClipboard whose catch block returns true
CopyToClipboardAlwaysTrue(text, writeOk) ==
    [result |-> TRUE, clipboard |-> IF writeOk THEN text ELSE clipboard]

\* copyToClipboard(text) with the outcome of navigator.clipboard.writeText
CopyToClipboard(text, writeOk) ==
    [result |-> writeOk, clipboard |-> IF writeOk THEN text ELSE clipboard]

\* the Copy Data button, rendered while status is SUCCESS; a TypeError in
\* generateCSV rejects the handler's promise before anything is written
HandleCopyCSV(writeOk) ==
    /\ status = SUCCESS
    /\ IF GenerateCSVThrows(transactions)
       THEN UNCHANGED <<clipboard, copied, timers>>
       ELSE LET out == CopyToClipboard(GenerateCSV(transactions), writeOk)
            IN /\ clipboard' = out.clipboard
               /\ IF out.result
                  THEN /\ timers < MaxTimers
                       /\ copied' = TRUE
                       /\ timers' = timers + 1
                  ELSE UNCHANGED <<copied, timers>>
    /\ UNCHANGED <<selectedFiles, files, status, transactions, error,
                   processedCount, tasks, join, runCount, started, run, results, response, extracted>>

\* setTimeout(() => setCopied(false), 2000) fires
CopiedTimeout ==
    /\ timers > 0
    /\ timers' = timers - 1
    /\ copied' = FALSE
    /\ UNCHANGED <<selectedFiles, files, status, transactions, error,
                   processedCount, tasks, join, runCount, started, run, results, clipboard, response,
                   extracted>>

-----------------------------------------------------------------------------
(* One extractTransactions call on its own *)

ExtractCall ==
    /\ extracted = NotCalled
    /\ extracted' = ExtractTransactions(response)
    /\ UNCHANGED <<selectedFiles, files, status, transactions, error, copied,
                   processedCount, tasks, join, runCount, started, run, results, clipboard, timers,
                   response>>

-----------------------------------------------------------------------------
(* Specifications *)

\* the widget and the runs
Next ==
    \/ \E batch \in Batches : HandleFiles(batch)
    \/ \E i \in 1..MaxFiles : RemoveFile(i)
    \/ ClearAll
    \/ HandleAnalyze
    \/ \E t \in tasks : ReadLoaded(t)
    \/ \E t \in tasks : ReadFailed(t)
    \/ \E t \in tasks, reply \in RunReplies : ExtractSettled(t, reply)
    \/ HandleReset

Spec == Init /\ [][Next]_vars

\* a file read or a request of some per-file operation in flight settles
TaskStep ==
    \E t \in tasks :
        \/ ReadLoaded(t)
        \/ ReadFailed(t)
        \/ \E reply \in RunReplies : ExtractSettled(t, reply)

\* the widget and the runs, with reads and requests that do not stay pending
\* forever
SpecLive == Init /\ [][Next]_vars /\ WF_vars(TaskStep)

\* a single extractTransactions call, over the replies of CallReplies
InitExtract ==
    /\ Init!1 /\ Init!2 /\ Init!3 /\ Init!4 /\ Init!5 /\ Init!6 /\ Init!7
    /\ Init!8 /\ Init!9 /\ Init!10 /\ Init!11 /\ Init!12 /\ Init!13 /\ Init!14
    /\ Init!15
    /\ response \in CallReplies
    /\ extracted = NotCalled

NextExtract == ExtractCall

SpecExtract == InitExtract /\ [][NextExtract]_vars

\* the Copy Data button on a one-file run that ended in SUCCESS, over the
\* sequences of up to MaxTx records that sort leaves as they are
InitCSV ==
    /\ selectedFiles = <<>>
    /\ files = <<File("a.pdf", 1, "application/pdf")>>
    /\ status = SUCCESS
    /\ \E n \in 0..MaxTx :
          \E k \in 1..(IF n = 0 THEN 1 ELSE n), r \in CsvRecords(MaxLen) :
              /\ transactions = CsvInput(n, k, r)
              /\ transactions \in SortOutcomes(transactions)
    /\ error = Null
    /\ copied = FALSE
    /\ processedCount = 1
    /\ tasks = {}
    /\ join = NoJoin
    /\ runCount = 1
    /\ started = 1
    /\ run = [n |-> 1, failed |-> FALSE, final |-> SUCCESS]
    /\ results = <<transactions>>
    /\ clipboard = <<>>
    /\ timers = 0
    /\ response = NoText
    /\ extracted = NotCalled

NextCSV ==
    \/ \E writeOk \in BOOLEAN : HandleCopyCSV(writeOk)
    \/ CopiedTimeout

SpecCSV == InitCSV /\ [][NextCSV]_vars


-----------------------------------------------------------------------------
(* Properties of the runs *)

Count(x, s) == Cardinality({i \in 1..Len(s) : s[i] = x})

IsPermutationOf(s, t) ==
    /\ Len(s) = Len(t)
    /\ \A i \in 1..Len(t) : Count(t[i], s) = Count(t[i], t)

RECURSIVE SumLen(_)
SumLen(ss) == IF ss = <<>> THEN 0 ELSE Len(Head(ss)) + SumLen(Tail(ss))

\* C1: once the read or the extraction of a file of the latest run has
\* failed, that run has ended with status ERROR, the status is not SUCCESS and
\* no transaction is exposed.
C1_AllOrNothing ==
    run.failed => run.final = ERROR /\ status # SUCCESS /\ transactions = <<>>

\* a two-file run in which one file completed and the other failed
C1_Witness ==
    /\ runCount = 1 /\ run.n = 2 /\ run.failed
    /\ status = ERROR /\ processedCount = 1 /\ tasks = {}

\* C2: in SUCCESS the transactions are in non-decreasing order of calendar
\* date (read on the records whose date has a calendar value).
C2_SortedByDate ==
    status = SUCCESS =>
        \A i, j \in 1..Len(transactions) :
            (i < j /\ ~GetTime(transactions[i]).nan /\ ~GetTime(transactions[j]).nan)
                => GetTime(transactions[i]).t <= GetTime(transactions[j]).t

\* C3: in SUCCESS the transactions are a permutation of the concatenation of
\* the sequences the run's files were extracted to, so their number is the sum
\* of the per-file counts.
C3_PermutationOfExtracted ==
    status = SUCCESS =>
        /\ IsPermutationOf(transactions, Concat(results))
        /\ Len(transactions) = SumLen(results)
        /\ Len(results) = Len(files)

\* a two-file run that succeeded with records from both files, reordered
C3_Witness ==
    /\ status = SUCCESS
    /\ Len(results) = 2
    /\ results[1] # <<>> /\ results[2] # <<>>
    /\ transactions # Concat(results)

\* C6: the submission set never holds two entries with the same
\* (name, size) pair.
C6_UniquePairs ==
    \A i, j \in 1..Len(selectedFiles) :
        i # j => ~(selectedFiles[i].name = selectedFiles[j].name
                   /\ selectedFiles[i].size = selectedFiles[j].size)

\* C8: every record exposed in SUCCESS carries all four fields.
C8_RecordsComplete ==
    status = SUCCESS =>
        \A i \in 1..Len(transactions) : transactions[i].present = Fields

\* C9: in SUCCESS the progress counter equals the number of files of the run.
C9_CounterIsFileCount ==
    status = SUCCESS => processedCount = run.n

\* the per-file operations in flight whose run's Promise.all has settled
StaleTasks == {t \in tasks : t.run # join.run}

\* C10: a step of a per-file operation whose run has already ended, taken in
\* the IDLE state or while a later run exists, changes none of counter,
\* transactions, status and error.
C10_NoStaleEffect ==
    [][(\E t \in StaleTasks :
            t \notin tasks' /\ (status = IDLE \/ t.run < runCount))
          => UNCHANGED <<processedCount, transactions, status, error>>]_vars

-----------------------------------------------------------------------------
(* Properties of extractTransactions *)

\* the reply is missing, empty, unparseable, or an object without a
\* `transactions` array
WithoutTransactionsArray(r) ==
    \/ r.kind \in {"no_text", "empty_text", "malformed"}
    \/ r.kind = "json_object" /\ r.tx # "array"

\* C7: extractTransactions fails on a reply that is missing, empty,
\* unparseable or an object without a `transactions` array, and returns the
\* empty sequence only for a reply that carries an empty `transactions` array.
C7_FailsWithoutArray ==
    extracted # NotCalled =>
        /\ WithoutTransactionsArray(response) => ~extracted.ok
        /\ (extracted.ok /\ extracted.value = <<>>) =>
               (response.kind = "json_object" /\ response.tx = "array"
                /\ response.items = <<>>)

-----------------------------------------------------------------------------
(* Properties of generateCSV *)

\* the text with each maximal run of tab, newline and carriage return
\* replaced by one space: the first character of a run becomes the space,
\* the others go
RunsCollapsed(s) ==
    LET kept == {i \in 1..Len(s) :
                    s[i] \notin CtlChars \/ i = 1 \/ s[i-1] \notin CtlChars}
        Nth(k) == CHOOSE i \in kept : Cardinality({j \in kept : j < i}) = k - 1
    IN [k \in 1..Cardinality(kept) |->
            IF s[Nth(k)] \in CtlChars THEN SP ELSE s[Nth(k)]]

\* the text between its first and its last character that is not whitespace
Stripped(s) ==
    LET solid == {i \in 1..Len(s) : s[i] \notin WhiteSpace}
    IN IF solid = {} THEN <<>>
       ELSE SubSeq(s, CHOOSE i \in solid : \A j \in solid : i <= j,
                      CHOOSE i \in solid : \A j \in solid : j <= i)

HasNoCtl(s) == \A i \in 1..Len(s) : s[i] \notin CtlChars

\* the fields of the data row written for t, description and category being d and c
RowOf(t, d, c) == <<t.date, d, c, NumberToString(t.amount)>>

\* C4: the text written for N > 0 transactions has N+1 rows, and each data row
\* has 4 tab-separated fields.
C4_RowsAndFields ==
    (copied /\ Len(transactions) > 0) =>
        LET rows == SplitOn(clipboard, LF)
        IN /\ Len(rows) = Len(transactions) + 1
           /\ \A k \in 2..Len(rows) : Len(SplitOn(rows[k], TAB)) = 4

\* C5: the description and the category written for a transaction are the
\* input with each maximal run of tab/newline/carriage return replaced by one
\* space and the whitespace at both ends removed, and hold no tab, newline or
\* carriage return.
C5_FieldsSanitized ==
    (copied /\ Len(transactions) > 0) =>
        /\ clipboard =
               JoinWith(<<JoinWith(CsvHeaders, TAB)>> \o
                        [i \in 1..Len(transactions) |->
                            JoinWith(RowOf(transactions[i],
                                Stripped(RunsCollapsed(transactions[i].description)),
                                Stripped(RunsCollapsed(transactions[i].category))),
                                TAB)], LF)
        /\ \A i \in 1..Len(transactions) :
               /\ HasNoCtl(Stripped(RunsCollapsed(transactions[i].description)))
               /\ HasNoCtl(Stripped(RunsCollapsed(transactions[i].category)))

\* a description with a run of two control characters inside and one at the
\* end has been written
C5_Witness ==
    /\ copied
    /\ \E i \in 1..Len(transactions) :
           /\ transactions[i].description = <<"a", TAB, LF>>
           /\ Len(transactions) = 2

-----------------------------------------------------------------------------
(* Properties of the error message *)

\* what the per-file operation t can reject with: the event of reader.onerror
\* while reading, the error thrown by extractTransactions while extracting
FailuresOf(t) ==
    IF t.stage = "reading" THEN {ThrownEvent}
    ELSE {ExtractTransactions(r) : r \in {q \in RunReplies :
                                            ~ExtractTransactions(q).ok}}

\* C11: in the step that ends a run in ERROR, the message exposed is exactly
\* the message carried by the per-file failure that ended it, a file-read
\* failure included.
C11_FirstFailureMessage ==
    [][(status = PROCESSING /\ status' = ERROR)
          => \E t \in tasks \ tasks' : \E e \in FailuresOf(t) :
                e.hasMessage /\ error' = e.message]_vars

-----------------------------------------------------------------------------
(* Properties of the merge *)

\* the records of s whose date has the calendar value d, in their order
DatedAt(s, d) == SelectSeq(s, LAMBDA t : GetTime(t) = d)

\* C12: in SUCCESS the records of one calendar date stand in the order they
\* have in the merged sequence results.flat() the sort was given.
C12_StableMerge ==
    status = SUCCESS =>
        \A i \in 1..Len(transactions) :
            ~GetTime(transactions[i]).nan =>
                DatedAt(transactions, GetTime(transactions[i]))
                    = DatedAt(Flat(results), GetTime(transactions[i]))

-----------------------------------------------------------------------------
(* Properties of generateCSV's header *)

HeaderRow == JoinWith(CsvHeaders, TAB)

\* C13: generateCSV of no transactions is the empty string, and of some
\* transactions it starts with the header row followed by a newline; the
\* header row alone is never the output, nor what a copy leaves on the
\* clipboard.
C13_EmptyOrHeaderFirst ==
    LET out == GenerateCSV(transactions)
    IN /\ GenerateCSV(<<>>) = <<>>
       /\ transactions = <<>> => out = <<>>
       /\ transactions # <<>> =>
              /\ Len(out) > Len(HeaderRow)
              /\ SubSeq(out, 1, Len(HeaderRow) + 1) = HeaderRow \o <<LF>>
       /\ out # HeaderRow
       /\ clipboard # HeaderRow

\* a copy of an empty result has succeeded and left the empty string
C13_Witness ==
    /\ status = SUCCESS /\ transactions = <<>>
    /\ copied /\ clipboard = <<>>

-----------------------------------------------------------------------------
(* Properties of the submission set *)

HasInvalidType(batch) == \E i \in 1..Len(batch) : batch[i].type \notin ValidTypes

\* C14: every file of the submission set, and of the list the App holds, has
\* a type of the allow-list; adding a file of another type adds nothing, and
\* a batch of two files adds none of another type.
C14_AllowList ==
    /\ \A i \in 1..Len(selectedFiles) : selectedFiles[i].type \in ValidTypes
    /\ \A i \in 1..Len(files) : files[i].type \in ValidTypes
    /\ \A f \in FileUniverse :
          /\ f.type \notin ValidTypes => NewFiles(selectedFiles, <<f>>) = <<>>
          /\ \A g \in FileUniverse :
                ~HasInvalidType(NewFiles(selectedFiles, <<f, g>>))

\* a non-empty submission set to which a batch holding a text file would add
\* its other file
C14_Witness ==
    /\ selectedFiles # <<>>
    /\ \E batch \in Batches :
          HasInvalidType(batch) /\ NewFiles(selectedFiles, batch) # <<>>

-----------------------------------------------------------------------------
(* Properties of the run's life cycle *)

\* C15: a step that starts a run is taken while the status is not PROCESSING
\* and no earlier handleAnalyze is still awaiting its Promise.all; after it the
\* one pending Promise.all is that of the run just started.
C15_SingleFlight ==
    [][runCount' # runCount =>
          /\ status # PROCESSING
          /\ join = NoJoin
          /\ status' = PROCESSING
          /\ join'.run = runCount']_vars

\* a second run is under way, started after the first one ended in ERROR
C15_Witness ==
    /\ runCount = 2 /\ status = PROCESSING /\ join.run = 2
    /\ processedCount = 1

-----------------------------------------------------------------------------
(* Properties of copyToClipboard *)

\* C16: copyToClipboard returns true when the write succeeds and false when it
\* is rejected; a step of the copy handler leaves status, transactions and
\* counter as they were, shows "copied" only for a text that reached the
\* clipboard, and changes the clipboard only on success.
C16_CopyNeverThrows ==
    [][/\ \A ok \in BOOLEAN :
             CopyToClipboard(GenerateCSV(transactions), ok).result = ok
       /\ UNCHANGED <<status, transactions, processedCount, error, files>>
       /\ (copied' /\ ~copied) => clipboard' = GenerateCSV(transactions)
       /\ clipboard' # clipboard => copied']_vars

\* a copy of some transactions has succeeded
C16_Witness ==
    /\ status = SUCCESS /\ transactions # <<>>
    /\ copied /\ timers = 1
    /\ clipboard = GenerateCSV(transactions)

\* C17: in the step in which the status leaves PROCESSING no per-file
\* operation of the run that ends is left in flight.
C17_EndsAfterAllOperations ==
    [][(status = PROCESSING /\ status' # PROCESSING)
          => \A t \in tasks' : t.run # runCount]_vars

\* C18: when no read and no request stays pending forever, a run that is in
\* PROCESSING reaches SUCCESS or ERROR.
C18_Terminates == (status = PROCESSING) ~> (status \in {SUCCESS, ERROR})

\* a two-file run has ended in SUCCESS
C18_Witness ==
    /\ runCount = 1 /\ run.n = 2 /\ run.final = SUCCESS
    /\ status = SUCCESS /\ tasks = {} /\ join = NoJoin

\* C19: outside SUCCESS no transaction is exposed, and the only step that
\* writes a non-empty sequence is the one that takes the status from
\* PROCESSING to SUCCESS.
C19_WriteOnce ==
    [][/\ status # SUCCESS => transactions = <<>>
       /\ status' # SUCCESS => transactions' = <<>>
       /\ transactions' # transactions =>
             \/ transactions' = <<>>
             \/ status = PROCESSING /\ status' = SUCCESS]_vars

\* a retried run has written its transactions after the first run failed and
\* a leftover operation of the first run completed
C19_Witness ==
    /\ runCount = 2 /\ status = SUCCESS /\ transactions # <<>>
    /\ processedCount > run.n

\* C20: while the status is PROCESSING the list of files the App holds is the
\* run's snapshot and does not change, the submission set does not change
\* while the run lasts, and a step that is not the settling of a per-file
\* operation (an add, remove or clear-all event) changes none of status,
\* counter, transactions and error.
C20_FrozenSnapshot ==
    [][status = PROCESSING =>
          /\ Len(files) = run.n
          /\ files' = files
          /\ status' = PROCESSING => selectedFiles' = selectedFiles
          /\ tasks' = tasks =>
                UNCHANGED <<status, processedCount, transactions, error>>]_vars

\* a one-file run is under way and there are files a drop would add if the
\* widget accepted it
C20_Witness ==
    /\ status = PROCESSING /\ Len(files) = 1 /\ selectedFiles = files
    /\ \E batch \in Batches : NewFiles(selectedFiles, batch) # <<>>
    /\ \E t \in tasks : t.run = runCount /\ t.stage = "extracting"

-----------------------------------------------------------------------------
(* Properties of the per-file operations *)

\* C21: a run starts exactly one per-file operation for each of its files; a
\* request is issued only by an operation whose read has just succeeded, once;
\* a step ends at most one operation, the one that settles, so the failure of
\* a file leaves the operations of the other files in flight; and no
\* operation is started again.
C21_NoCancelNoRetry ==
    [][/\ \A t \in tasks \ tasks' : tasks \ tasks' = {t}
       /\ \A t \in tasks' \ tasks :
             \/ /\ t.stage = "extracting"
                /\ tasks \ tasks' = {[t EXCEPT !.stage = "reading"]}
             \/ /\ t.stage = "reading"
                /\ runCount' = runCount + 1 /\ t.run = runCount'
       /\ runCount' # runCount =>
             tasks' \ tasks = {[run |-> runCount', idx |-> i, stage |-> "reading"] :
                                  i \in 1..Len(files)}
       /\ \A t, u \in tasks' : (t.run = u.run /\ t.idx = u.idx) => t = u]_vars

\* a file of a two-file run has failed and the request of the other file has
\* been issued all the same
C21_Witness ==
    /\ runCount = 1 /\ run.n = 2 /\ run.failed /\ status = ERROR
    /\ \E t \in tasks : t.run = 1 /\ t.stage = "extracting"

-----------------------------------------------------------------------------
(* Properties of the progress display *)

\* C22: the progress counter lies between 0 and the number of files the App
\* holds, in every state, and does not decrease while the status stays
\* PROCESSING.
C22_ProgressBound ==
    [][/\ processedCount \in 0..Len(files)
       /\ processedCount' \in 0..Len(files')
       /\ (status = PROCESSING /\ status' = PROCESSING)
             => processedCount' >= processedCount]_vars

-----------------------------------------------------------------------------
(* Properties of the status *)

StatusTransitions ==
    {<<IDLE, PROCESSING>>, <<ERROR, PROCESSING>>, <<PROCESSING, SUCCESS>>,
     <<PROCESSING, ERROR>>, <<SUCCESS, IDLE>>, <<ERROR, IDLE>>}

\* C23: the status changes only along the six transitions; PROCESSING is
\* left only in a step in which an operation of the latest run settles and
\* that run's Promise.all with it; and a run starts with at least one file.
C23_StatusTransitions ==
    [][/\ status' # status => <<status, status'>> \in StatusTransitions
       /\ (status = PROCESSING /\ status' # PROCESSING) =>
             /\ join.run = runCount /\ join' = NoJoin
             /\ \E t \in tasks \ tasks' : t.run = runCount
       /\ runCount' # runCount =>
             /\ Len(files) > 0
             /\ run'.n = Len(files) /\ join'.n = Len(files)]_vars

\* a run has failed and the user, clearing the files, is back in IDLE
C23_Witness ==
    /\ status = IDLE /\ runCount = 1 /\ run.final = ERROR
    /\ files = <<>> /\ error = Null

-----------------------------------------------------------------------------
(* Properties of the merge under interleaving *)

AllDatesValid(s) == \A i \in 1..Len(s) : ~GetTime(s[i]).nan

\* C24: in SUCCESS, when every extracted date is valid, the transactions are
\* the stable date order of the per-file results concatenated in the order of
\* the file list: a function of the files' results alone, whatever the order
\* in which the operations completed, in which records of one date stand by
\* file position.
C24_DeterministicMerge ==
    (status = SUCCESS /\ AllDatesValid(Concat(results))) =>
        /\ transactions = StableSort(Concat(results))
        /\ \A d \in {GetTime(transactions[i]) : i \in 1..Len(transactions)} :
              DatedAt(transactions, d) = DatedAt(Concat(results), d)

\* a two-file run whose files both returned a record dated 2024-03-05: the
\* record of the first file stands before that of the second
C24_Witness ==
    /\ status = SUCCESS
    /\ results = <<<<NoAmount>>, <<Rent, Salary>>>>
    /\ transactions = <<Salary, NoAmount, Rent>>

====
